---- MODULE Spec2Model ----
(***************************************************************************)
(* A model of scripts/netlify_fix.py: the post-build step that writes      *)
(* robots.txt, rss.xml, sitemap.xml, _redirects and _headers into a built  *)
(* output tree.                                                            *)
(*                                                                         *)
(* A Python str is a sequence of one-character strings, so that strip,     *)
(* startswith, lower, the key-file regular expression and sorted() are     *)
(* computed the way the code computes them.                                *)
(***************************************************************************)
EXTENDS Integers, Sequences, FiniteSets, TLC

VARIABLES
    argv,           \* sys.argv[1:], the positional arguments
    tree,           \* the output directory: relative path -> entry
    docs,           \* <repo_root>/docs: exists, and name -> data of its files
    daily_csv,      \* <repo_root>/data/daily.csv: exists, and its rows
    enriched_json,  \* <repo_root>/data/enriched.json: missing, unparsable or a JSON value
    clock,          \* the wall clock datetime.now(timezone.utc) reads
    pc,             \* the statement of main the process is at
    run,            \* "first" or "second" invocation of the script
    base_url,       \* main's local base_url
    now_utc,        \* main's local now_utc
    exit_code,      \* the status the process ended with (-1 while it runs)
    tree0,          \* history: the output directory before the first invocation
    start,          \* history: the output directory when this invocation began
    copied,         \* history: the names _copy_root_tokens copied in this invocation
    prev,           \* history: the documents the first invocation left
    scanned,        \* history: the output directory _collect_internal_pages walked
    rlog,           \* _read_recent_urls called on its own: the log it reads
    rlimit,         \* ... its limit argument
    rresult,        \* ... what it returned
    rpc             \* ... "call" before, "returned" after

vars == <<argv, tree, docs, daily_csv, enriched_json, clock, pc, run, base_url,
          now_utc, exit_code, tree0, start, copied, prev, scanned, rlog, rlimit,
          rresult, rpc>>

---------------------------------------------------------------------------
(* Characters and strings *)

Digits == <<"0","1","2","3","4","5","6","7","8","9">>
UpperCase == <<"A","B","C","D","E","F","G","H","I","J","K","L","M",
               "N","O","P","Q","R","S","T","U","V","W","X","Y","Z">>
LowerCase == <<"a","b","c","d","e","f","g","h","i","j","k","l","m",
               "n","o","p","q","r","s","t","u","v","w","x","y","z">>

\* The characters of the model in code-point order.
AsciiOrder == <<"\t","\n"," ","*","-",".","/">> \o Digits \o <<":">>
              \o UpperCase \o <<"_">> \o LowerCase

Range(s) == {s[i] : i \in DOMAIN s}

\* ord(c), up to an order-preserving renumbering.
Ord == [c \in Range(AsciiOrder) |-> CHOOSE i \in DOMAIN AsciiOrder : AsciiOrder[i] = c]

\* str.lower() on one character.
LowerChar == [c \in Range(AsciiOrder) |->
                IF c \in Range(UpperCase)
                THEN LowerCase[CHOOSE i \in DOMAIN UpperCase : UpperCase[i] = c]
                ELSE c]

lower(s) == [i \in DOMAIN s |-> LowerChar[s[i]]]

\* The characters str.strip() removes.
Whitespace == {" ", "\t", "\n"}

RECURSIVE lstrip(_)
lstrip(s) == IF s # <<>> /\ Head(s) \in Whitespace THEN lstrip(Tail(s)) ELSE s

RECURSIVE rstrip_chars(_, _)
rstrip_chars(s, cs) ==
    IF s # <<>> /\ s[Len(s)] \in cs THEN rstrip_chars(SubSeq(s, 1, Len(s) - 1), cs) ELSE s

strip(s) == rstrip_chars(lstrip(s), Whitespace)

startswith(s, p) == Len(s) >= Len(p) /\ SubSeq(s, 1, Len(p)) = p

endswith(s, p) == Len(s) >= Len(p) /\ SubSeq(s, Len(s) - Len(p) + 1, Len(s)) = p

\* a < b for Python strings: by code point, a proper prefix first.
RECURSIVE str_lt(_, _)
str_lt(a, b) ==
    IF b = <<>> THEN FALSE
    ELSE IF a = <<>> THEN TRUE
    ELSE IF Head(a) = Head(b) THEN str_lt(Tail(a), Tail(b))
    ELSE Ord[Head(a)] < Ord[Head(b)]

\* sorted(S) for a set of strings.
RECURSIVE sorted(_)
sorted(S) ==
    IF S = {} THEN <<>>
    ELSE LET m == CHOOSE x \in S : \A y \in S \ {x} : str_lt(x, y)
         IN  <<m>> \o sorted(S \ {m})

---------------------------------------------------------------------------
(* The names the code spells out *)

HTML_EXT == <<".","h","t","m","l">>
TXT_EXT == <<".","t","x","t">>
GOOGLE == <<"g","o","o","g","l","e">>
HTTP == <<"h","t","t","p">>
HTTP_SCHEME == <<"h","t","t","p",":","/","/">>
HTTPS_SCHEME == <<"h","t","t","p","s",":","/","/">>
SLASH == <<"/">>
N_index == <<"i","n","d","e","x",".","h","t","m","l">>
N_all == <<"a","l","l",".","h","t","m","l">>
N_about == <<"a","b","o","u","t",".","h","t","m","l">>
N_rss == <<"r","s","s",".","x","m","l">>
N_sitemap == <<"s","i","t","e","m","a","p",".","x","m","l">>
N_robots == <<"r","o","b","o","t","s",".","t","x","t">>
N_backlink == <<"b","a","c","k","l","i","n","k","-","f","e","e","d",".","x","m","l">>
N_d == <<"d">>
N_redirects == <<"_","r","e","d","i","r","e","c","t","s">>
N_headers == <<"_","h","e","a","d","e","r","s">>
USER_AGENT == <<"U","s","e","r","-","a","g","e","n","t",":"," ","*">>
ALLOW == <<"A","l","l","o","w",":"," ","/">>
SITEMAP_PREFIX == <<"S","i","t","e","m","a","p",":"," ">>
DAILY_RULE == <<"/","d","/","*"," ","/","d","/",":","s","p","l","a","t"," ","2","0","0">>
STATUS_200 == <<" ","2","0","0">>
H_sitemap == <<"/","s","i","t","e","m","a","p",".","x","m","l">>
H_rss == <<"/","r","s","s",".","x","m","l">>
H_backlink == <<"/","b","a","c","k","l","i","n","k","-","f","e","e","d",".","x","m","l">>
H_robots == <<"/","r","o","b","o","t","s",".","t","x","t">>
CT_PREFIX == <<" "," ","C","o","n","t","e","n","t","-","T","y","p","e",":"," ">>
CT_xml == <<"a","p","p","l","i","c","a","t","i","o","n","/","x","m","l",";"," ","c","h","a","r","s","e","t","=","u","t","f","-","8">>
CT_rss == <<"a","p","p","l","i","c","a","t","i","o","n","/","r","s","s","+","x","m","l",";"," ","c","h","a","r","s","e","t","=","u","t","f","-","8">>
CT_text == <<"t","e","x","t","/","p","l","a","i","n",";"," ","c","h","a","r","s","e","t","=","u","t","f","-","8">>

\* INDEXNOW_KEY_RE = ^[a-f0-9]{32}\.txt$ with re.I, tried with .match(): 32 hex
\* digits of either case, then ".txt" in either case; $ also matches before one
\* final newline.
HexDigits == Range(Digits) \cup {"a","b","c","d","e","f"}

KeyBody(s) ==
    /\ Len(s) = 36
    /\ \A i \in 1..32 : LowerChar[s[i]] \in HexDigits
    /\ lower(SubSeq(s, 33, 36)) = TXT_EXT

\* A faulty variant: the pattern without re.I.
INDEXNOW_KEY_RE_case_sensitive(s) ==
    /\ Len(s) = 36
    /\ \A i \in 1..32 : s[i] \in HexDigits
    /\ SubSeq(s, 33, 36) = TXT_EXT

INDEXNOW_KEY_RE(s) ==
    \/ KeyBody(s)
    \/ Len(s) = 37 /\ s[37] = "\n" /\ KeyBody(SubSeq(s, 1, 36))

---------------------------------------------------------------------------
(* Paths of the output directory *)

\* p.name: the last component of a relative path.
RECURSIVE basename(_)
basename(p) ==
    IF \E i \in DOMAIN p : p[i] = "/"
    THEN basename(SubSeq(p, (CHOOSE i \in DOMAIN p : p[i] = "/") + 1, Len(p)))
    ELSE p

\* The entries out_dir.iterdir() lists: the paths of one component.
IsTopLevel(p) == \A i \in DOMAIN p : p[i] # "/"

\* (out_dir / name).exists()
exists(t, name) == name \in DOMAIN t

\* p.is_file()
is_file(t, name) == name \in DOMAIN t /\ t[name].kind = "file"

\* The tree with one more entry, or one entry replaced.
Put(t, name, entry) == [p \in DOMAIN t \cup {name} |-> IF p = name THEN entry ELSE t[p]]

---------------------------------------------------------------------------
(* File contents *)

\* A directory, a file this script did not write, and a file it wrote. A text
\* file holds the pieces its text splits into at "\n" (a text ending in a
\* newline has an empty last piece).
Dir == [kind |-> "dir", data |-> [fmt |-> "dir"]]
RawFile(id) == [kind |-> "file", data |-> [fmt |-> "raw", id |-> id]]
TextFile(pieces) == [kind |-> "file", data |-> [fmt |-> "text", pieces |-> pieces]]
XmlFile(root) == [kind |-> "file", data |-> root]

\* The pieces of "\n".join(lines), for lines that hold no newline.
join_nl(lines) == IF lines = <<>> THEN << <<>> >> ELSE lines

\* The pieces of text + "\n".
plus_nl(pieces) == pieces \o << <<>> >>

\* The pieces of text.rstrip(), for pieces that end in no other whitespace.
RECURSIVE rstrip_text(_)
rstrip_text(pieces) ==
    IF Len(pieces) > 1 /\ pieces[Len(pieces)] = <<>>
    THEN rstrip_text(SubSeq(pieces, 1, Len(pieces) - 1))
    ELSE pieces

\* _write_text(path, text): the file is created or replaced.
write_text(t, name, pieces) == Put(t, name, TextFile(pieces))

---------------------------------------------------------------------------
(* _norm_base_url *)

norm_base_url(u) ==
    LET s == strip(u)
    IN  IF s = <<>> THEN s ELSE rstrip_chars(s, {"/"})

---------------------------------------------------------------------------
(* _copy_if_missing, _copy_root_tokens *)

\* A faulty variant: the copy is made whether or not the target exists.
copy_always(data, name, t) == Put(t, name, [kind |-> "file", data |-> data])

copy_if_missing(data, name, t) ==
    IF exists(t, name) THEN t ELSE Put(t, name, [kind |-> "file", data |-> data])

\* docs_dir.glob("google*.html"): the case-sensitive match of the name.
glob_google_html(d) ==
    {n \in DOMAIN d.files :
        /\ Len(n) >= Len(GOOGLE) + Len(HTML_EXT)
        /\ startswith(n, GOOGLE)
        /\ endswith(n, HTML_EXT)}

\* docs_dir.glob("*.txt")
glob_txt(d) == {n \in DOMAIN d.files : endswith(n, TXT_EXT)}

\* The docs files _copy_root_tokens hands to _copy_if_missing.
root_tokens(d) == glob_google_html(d) \cup {n \in glob_txt(d) : INDEXNOW_KEY_RE(n)}

RECURSIVE copy_each(_, _, _)
copy_each(d, names, t) ==
    IF names = {} THEN t
    ELSE LET n == CHOOSE x \in names : TRUE
         IN  copy_each(d, names \ {n}, copy_if_missing(d.files[n], n, t))

copy_root_tokens(d, t) ==
    IF ~d.exists THEN t ELSE copy_each(d, root_tokens(d), t)

---------------------------------------------------------------------------
(* _ensure_robots *)

ensure_robots(t, base) ==
    write_text(t, N_robots,
               join_nl(<<USER_AGENT, ALLOW, SITEMAP_PREFIX \o base \o SLASH \o N_sitemap, <<>> >>))

---------------------------------------------------------------------------
(* _collect_internal_pages, _ensure_sitemap *)

\* out_dir.rglob("*.html"): every entry, at any depth, whose name ends in .html.
rglob_html(t) == {p \in DOMAIN t : endswith(basename(p), HTML_EXT)}

ALLOW_LIST == {N_all, N_about, N_rss, N_sitemap, N_robots, N_backlink}

\* A faulty variant: the root index.html is not skipped in the walk.
collect_internal_pages_no_skip(t, base) ==
    LET root  == IF exists(t, N_index) THEN {base \o SLASH} ELSE {}
        html  == {base \o SLASH \o rel : rel \in rglob_html(t)}
        named == {base \o SLASH \o name : name \in {n \in ALLOW_LIST : exists(t, n)}}
    IN  sorted(root \cup html \cup named)

collect_internal_pages(t, base) ==
    LET root  == IF exists(t, N_index) THEN {base \o SLASH} ELSE {}
        html  == {base \o SLASH \o rel : rel \in rglob_html(t) \ {N_index}}
        named == {base \o SLASH \o name : name \in {n \in ALLOW_LIST : exists(t, n)}}
    IN  sorted(root \cup html \cup named)

\* now_utc.date().isoformat()
isoformat_date(now) == [date |-> now.day]

\* email.utils.format_datetime(now_utc)
format_datetime(now) == [date |-> now.day, time |-> now.sec]

SITEMAP_NS == "http://www.sitemaps.org/schemas/sitemap/0.9"

\* A faulty variant: the file is created before the pages are collected.
ensure_sitemap_scan_after_create(t, base, now) ==
    LET urls == collect_internal_pages(Put(t, N_sitemap, RawFile("empty")), base)
    IN  Put(t, N_sitemap,
            XmlFile([fmt |-> "urlset", xmlns |-> SITEMAP_NS,
                     url |-> [i \in DOMAIN urls |->
                                [loc |-> urls[i], lastmod |-> isoformat_date(now)]]]))

ensure_sitemap(t, base, now) ==
    LET urls == collect_internal_pages(t, base)
    IN  Put(t, N_sitemap,
            XmlFile([fmt |-> "urlset", xmlns |-> SITEMAP_NS,
                     url |-> [i \in DOMAIN urls |->
                                [loc |-> urls[i], lastmod |-> isoformat_date(now)]]]))

---------------------------------------------------------------------------
(* _read_recent_urls *)

\* The default of _read_recent_urls' limit, and the limit _ensure_rss passes.
DEFAULT_LIMIT == 50

\* The loop over rows[1:]: the stripped first cell of every non-empty row, kept
\* when it starts with http:// or https://.
RECURSIVE keep_urls(_)
keep_urls(rows) ==
    IF rows = <<>> THEN <<>>
    ELSE LET row == Head(rows)
             u   == IF row = <<>> THEN <<>> ELSE strip(row[1])
         IN  (IF row # <<>> /\ (startswith(u, HTTP_SCHEME) \/ startswith(u, HTTPS_SCHEME))
              THEN <<u>> ELSE <<>>) \o keep_urls(Tail(rows))

\* urls[-limit:]: a slice from index -limit, which counts from the end only when
\* it is negative.
slice_from(urls, i) ==
    LET n     == Len(urls)
        first == IF i < 0 THEN (IF n + i < 0 THEN 0 ELSE n + i)
                 ELSE (IF i > n THEN n ELSE i)
    IN  SubSeq(urls, first + 1, n)

keep_most_recent(urls, limit) ==
    IF Len(urls) > limit THEN slice_from(urls, 0 - limit) ELSE urls

read_recent_urls(csv, limit) ==
    IF ~csv.exists THEN <<>>
    ELSE keep_most_recent(keep_urls(IF csv.rows = <<>> THEN <<>> ELSE Tail(csv.rows)), limit)

---------------------------------------------------------------------------
(* _load_enriched and the Python values json.loads returns *)

JNull == [t |-> "null"]
JStr(s) == [t |-> "str", v |-> s]
JNum(n) == [t |-> "num", v |-> n]
JList(l) == [t |-> "list", v |-> l]
JObj(f) == [t |-> "obj", v |-> f]
JEmpty == JObj(<<>>)

\* isinstance(x, dict)
is_dict(x) == x.t = "obj"

\* bool(x), as `or` tests it.
truthy(x) ==
    CASE x.t = "null" -> FALSE
      [] x.t = "str"  -> x.v # <<>>
      [] x.t = "num"  -> x.v # 0
      [] x.t = "list" -> x.v # <<>>
      [] x.t = "obj"  -> DOMAIN x.v # {}

\* x.get(key, default) of a dict x.
dict_get(x, key, default) == IF key \in DOMAIN x.v THEN x.v[key] ELSE default

\* a or b
py_or(a, b) == IF truthy(a) THEN a ELSE b

load_enriched(file) ==
    CASE file.state = "missing"    -> JEmpty
      [] file.state = "unparsable" -> JEmpty
      [] file.state = "json"       -> file.val

\* The enriched of _ensure_rss (line 125).
enriched_items(file) ==
    IF is_dict(load_enriched(file))
    THEN dict_get(load_enriched(file), "items", JEmpty)
    ELSE JEmpty

\* meta of one URL (line 135).
meta_of(enriched, u) == IF is_dict(enriched) THEN dict_get(enriched, u, JEmpty) ELSE JEmpty

\* Whether lines 135-137 raise AttributeError for the URL: meta without .get, or
\* a field without .strip.
raises(enriched, u) ==
    LET meta == meta_of(enriched, u)
    IN  \/ ~is_dict(meta)
        \/ py_or(dict_get(meta, "title", JNull), JStr(<<>>)).t # "str"
        \/ py_or(py_or(dict_get(meta, "summary", JNull),
                       dict_get(meta, "description", JNull)), JStr(<<>>)).t # "str"

\* (meta.get("title") or "").strip() or u
item_title(meta, u) ==
    LET s == strip(py_or(dict_get(meta, "title", JNull), JStr(<<>>)).v)
    IN  IF s # <<>> THEN s ELSE u

\* (meta.get("summary") or meta.get("description") or "").strip() or u
item_desc(meta, u) ==
    LET s == strip(py_or(py_or(dict_get(meta, "summary", JNull),
                               dict_get(meta, "description", JNull)), JStr(<<>>)).v)
    IN  IF s # <<>> THEN s ELSE u

---------------------------------------------------------------------------
(* _ensure_rss *)

\* A faulty variant: the log order is kept.
not_reversed(s) == s

\* reversed(urls)
reversed(s) == [i \in DOMAIN s |-> s[Len(s) + 1 - i]]

rss_item(enriched, u, now) ==
    LET meta == meta_of(enriched, u)
    IN  [title |-> item_title(meta, u), link |-> u, guid |-> u,
         description |-> item_desc(meta, u), pubDate |-> format_datetime(now)]

\* Whether _ensure_rss ends in an exception before it writes rss.xml.
rss_raises(csv, file) ==
    \E u \in Range(read_recent_urls(csv, DEFAULT_LIMIT)) : raises(enriched_items(file), u)

ensure_rss(t, csv, file, base, now) ==
    LET urls     == read_recent_urls(csv, DEFAULT_LIMIT)
        enriched == enriched_items(file)
        order    == reversed(urls)
    IN  Put(t, N_rss,
            XmlFile([fmt |-> "rss", version |-> "2.0",
                     title |-> "Discovery Hub", link |-> base \o SLASH,
                     description |-> "Recently added links",
                     lastBuildDate |-> format_datetime(now),
                     item |-> [i \in DOMAIN order |-> rss_item(enriched, order[i], now)]]))

---------------------------------------------------------------------------
(* _ensure_netlify_overrides *)

must_files == <<N_robots, N_sitemap, N_rss, N_backlink, N_index, N_all, N_about>>

\* f"/{fn} /{fn} 200"
self_rule(fn) == SLASH \o fn \o <<" ">> \o SLASH \o fn \o STATUS_200

RECURSIVE must_rules(_, _)
must_rules(t, fns) ==
    IF fns = <<>> THEN <<>>
    ELSE (IF exists(t, Head(fns)) THEN <<self_rule(Head(fns))>> ELSE <<>>)
         \o must_rules(t, Tail(fns))

daily_rules(t) == IF exists(t, N_d) THEN <<DAILY_RULE>> ELSE <<>>

\* The two tests of the scan, in their order, for one file name.
is_google_html(fn) == startswith(lower(fn), GOOGLE) /\ endswith(lower(fn), HTML_EXT)

RECURSIVE token_rules(_)
token_rules(fns) ==
    IF fns = <<>> THEN <<>>
    ELSE (IF is_google_html(Head(fns)) THEN <<self_rule(Head(fns))>> ELSE <<>>)
         \o (IF INDEXNOW_KEY_RE(Head(fns)) THEN <<self_rule(Head(fns))>> ELSE <<>>)
         \o token_rules(Tail(fns))

\* A faulty variant: the names in an order of the directory listing, not sorted.
top_level_files_unsorted(t) ==
    LET names == sorted({p \in DOMAIN t : IsTopLevel(p) /\ is_file(t, p)})
    IN  [i \in DOMAIN names |-> names[Len(names) + 1 - i]]

\* sorted([p.name for p in out_dir.iterdir() if p.is_file()])
top_level_files(t) == sorted({p \in DOMAIN t : IsTopLevel(p) /\ is_file(t, p)})

redirects_lines(t) == must_rules(t, must_files) \o daily_rules(t) \o token_rules(top_level_files(t))

\* add_header(path, content_type)
add_header(path, content_type) == <<path, CT_PREFIX \o content_type, <<>> >>

headers_lines ==
    add_header(H_sitemap, CT_xml) \o add_header(H_rss, CT_rss)
    \o add_header(H_backlink, CT_xml) \o add_header(H_robots, CT_text)

ensure_netlify_overrides(t) ==
    LET t1 == write_text(t, N_redirects, plus_nl(join_nl(redirects_lines(t))))
    IN  write_text(t1, N_headers, plus_nl(rstrip_text(join_nl(headers_lines))))

---------------------------------------------------------------------------
(* main, one action per statement that reads or writes the file system *)

\* The directories Path(sys.argv[1]).exists() finds.
ExistingDirs == {"out"}

\* What one invocation leaves of the three documents.
documents(t) == [robots |-> t[N_robots].data, rss |-> t[N_rss].data, sitemap |-> t[N_sitemap].data]

NoDocuments == [fmt |-> "none"]

\* A faulty variant of the checks: the output directory is not looked for.
usage_error_no_dir_check(args) ==
    \/ Len(args) < 2
    \/ ~startswith(norm_base_url(args[2]), HTTP)

\* Lines 213-222: whether main raises SystemExit for the arguments.
usage_error(args) ==
    \/ Len(args) < 2
    \/ args[1] \notin ExistingDirs
    \/ ~startswith(norm_base_url(args[2]), HTTP)

\* Lines 213-225: the checks of the arguments, then repo_root and now_utc.
Main ==
    /\ pc = "main"
    /\ IF usage_error(argv)
       THEN /\ pc' = "usage_error"
            /\ exit_code' = 1
            /\ UNCHANGED now_utc
       ELSE /\ pc' = "copy_root_tokens"
            /\ now_utc' = clock
            /\ UNCHANGED exit_code
    /\ base_url' = IF Len(argv) < 2 THEN base_url ELSE norm_base_url(argv[2])
    /\ start' = tree
    /\ copied' = {}
    /\ UNCHANGED <<argv, tree, docs, daily_csv, enriched_json, clock, run, tree0, prev,
                   scanned, rlog, rlimit, rresult, rpc>>

\* Line 227.
CopyRootTokens ==
    /\ pc = "copy_root_tokens"
    /\ tree' = copy_root_tokens(docs, tree)
    /\ copied' = DOMAIN tree' \ DOMAIN tree
    /\ pc' = "ensure_robots"
    /\ UNCHANGED <<argv, docs, daily_csv, enriched_json, clock, run, base_url, now_utc,
                   exit_code, tree0, start, prev, scanned, rlog, rlimit, rresult, rpc>>

\* Line 228.
EnsureRobots ==
    /\ pc = "ensure_robots"
    /\ tree' = ensure_robots(tree, base_url)
    /\ pc' = "ensure_rss"
    /\ UNCHANGED <<argv, docs, daily_csv, enriched_json, clock, run, base_url, now_utc,
                   exit_code, tree0, start, copied, prev, scanned, rlog, rlimit, rresult, rpc>>

\* Line 229: the feed is written, or the AttributeError of lines 135-137 ends
\* the process with a traceback.
EnsureRss ==
    /\ pc = "ensure_rss"
    /\ IF rss_raises(daily_csv, enriched_json)
       THEN /\ pc' = "crashed" /\ exit_code' = 1
            /\ UNCHANGED tree
       ELSE /\ tree' = ensure_rss(tree, daily_csv, enriched_json, base_url, now_utc)
            /\ pc' = "ensure_sitemap"
            /\ UNCHANGED exit_code
    /\ UNCHANGED <<argv, docs, daily_csv, enriched_json, clock, run, base_url, now_utc,
                   tree0, start, copied, prev, scanned, rlog, rlimit, rresult, rpc>>

\* Line 230.
EnsureSitemap ==
    /\ pc = "ensure_sitemap"
    /\ tree' = ensure_sitemap(tree, base_url, now_utc)
    /\ scanned' = tree
    /\ pc' = "ensure_netlify_overrides"
    /\ UNCHANGED <<argv, docs, daily_csv, enriched_json, clock, run, base_url, now_utc,
                   exit_code, tree0, start, copied, prev, rlog, rlimit, rresult, rpc>>

\* Lines 231-233.
EnsureNetlifyOverrides ==
    /\ pc = "ensure_netlify_overrides"
    /\ tree' = ensure_netlify_overrides(tree)
    /\ pc' = "done"
    /\ exit_code' = 0
    /\ prev' = IF run = "first" THEN documents(tree') ELSE prev
    /\ UNCHANGED <<argv, docs, daily_csv, enriched_json, clock, run, base_url, now_utc,
                   tree0, start, copied, scanned, rlog, rlimit, rresult, rpc>>

\* The instants the clock may show when the script is invoked again: later the
\* same day, or the next day.
LaterTimes(t) == {[day |-> t.day, sec |-> t.sec + 1], [day |-> t.day + 1, sec |-> 0]}

\* The script is invoked again with the same arguments and inputs, nothing
\* else having touched the output directory.
Rerun ==
    /\ pc = "done"
    /\ run = "first"
    /\ run' = "second"
    /\ pc' = "main"
    /\ exit_code' = -1
    /\ clock' \in LaterTimes(clock)
    /\ UNCHANGED <<argv, tree, docs, daily_csv, enriched_json, base_url, now_utc,
                   tree0, start, copied, prev, scanned, rlog, rlimit, rresult, rpc>>

Next ==
    \/ Main
    \/ CopyRootTokens
    \/ EnsureRobots
    \/ EnsureRss
    \/ EnsureSitemap
    \/ EnsureNetlifyOverrides
    \/ Rerun

---------------------------------------------------------------------------
(* The inputs *)

\* Entries an output directory may hold before the script runs.
P_daily == <<"d","/","i","n","d","e","x",".","h","t","m","l">>
F_googleDir == <<"g","o","o","g","l","e","9",".","h","t","m","l">>
F_google1 == <<"g","o","o","g","l","e","1","f",".","h","t","m","l">>
F_googleUp == <<"G","o","o","g","l","e","A","2",".","H","T","M","L">>
F_key == <<"0","a","1","B","2","c","3","d","4","e","5","f","6","0","7","1","8","2","9","3","a","4","b","5","c","6","d","7","e","8","f","9",".","t","x","t">>
F_notakey == <<"n","o","t","a","k","e","y",".","t","x","t">>
F_readme == <<"r","e","a","d","m","e",".","t","x","t">>

\* Base URLs, log cells, titles.
URL_ok == <<" ","h","t","t","p","s",":","/","/","h","/"," ">>
URL_bad == <<"f","t","p",":","/","/","h">>
URL_blank == <<" "," ">>
U_a == <<"h","t","t","p","s",":","/","/","x","/","a">>
U_b == <<"h","t","t","p","s",":","/","/","x","/","b">>
U_c == <<"h","t","t","p","s",":","/","/","x","/","c">>
CELL_header == <<"u","r","l">>
CELL_pad == <<" ","h","t","t","p",":","/","/","x","/","c","\t">>
CELL_ftp == <<"f","t","p",":","/","/","x","/","d">>
T_b == <<"B"," ","t","i","t","l","e">>
T_pad == <<" ","B","e","e"," ">>
T_blank == <<" "," ">>
S_b == <<"a","b","o","u","t"," ","b">>
D_b == <<"b"," ","d","e","s","c","r","i","b","e","d">>

\* The pool of the output directory: pages, a stale sitemap, the directory of
\* daily pages with its own index.html, verification and key files, a directory
\* named like a verification file, and a file that is no token.
OutPool ==
    (N_index :> RawFile("page")) @@ (N_all :> RawFile("page"))
    @@ (N_sitemap :> RawFile("stale")) @@ (N_d :> Dir) @@ (P_daily :> RawFile("page"))
    @@ (F_google1 :> RawFile("out")) @@ (F_googleUp :> RawFile("out"))
    @@ (F_googleDir :> Dir) @@ (F_key :> RawFile("out")) @@ (F_notakey :> RawFile("out"))

DocsPool ==
    (F_google1 :> [fmt |-> "raw", id |-> "docs"])
    @@ (F_key :> [fmt |-> "raw", id |-> "docs"])
    @@ (F_readme :> [fmt |-> "raw", id |-> "docs"])

\* The directory a path lies in (<<>> for a top-level path).
RECURSIVE dirname(_)
dirname(p) ==
    IF p = <<>> \/ p[Len(p)] = "/" THEN SubSeq(p, 1, Len(p) - 1)
    ELSE dirname(SubSeq(p, 1, Len(p) - 1))

Restrict(f, S) == [x \in S |-> f[x]]

\* The trees over a pool: every entry lies in a directory of the tree.
Trees(pool) ==
    {Restrict(pool, S) : S \in {X \in SUBSET DOMAIN pool :
        \A p \in X : IsTopLevel(p) \/ (dirname(p) \in X /\ pool[dirname(p)].kind = "dir")}}

DocsDirs(pool) ==
    {[exists |-> FALSE, files |-> <<>>]}
    \cup {[exists |-> TRUE, files |-> Restrict(pool, S)] : S \in SUBSET DOMAIN pool}

Csv(rows) == [exists |-> TRUE, rows |-> rows]
NoCsv == [exists |-> FALSE, rows |-> <<>>]
Json(val) == [state |-> "json", val |-> val]
NoJson == [state |-> "missing"]
BadJson == [state |-> "unparsable"]

\* {"items": {url: record}}
Items(url, record) == Json(JObj("items" :> JObj(url :> record)))

Header == <<CELL_header, CELL_header>>

\* Argument lists: too few, a missing directory, a base URL that is not http,
\* and a good one.
ArgvPool ==
    {<<>>, <<"out">>, <<"gone", URL_ok>>, <<"out", URL_bad>>, <<"out", URL_blank>>,
     <<"out", URL_ok>>}

\* The log and enrichment index of the runs over all trees: the first feeds
\* two items, the second holds a record that is no object.
FeedInputs ==
    {<<Csv(<<Header, <<U_a>>, <<U_b, CELL_header>> >>), Items(U_b, JObj("title" :> JStr(T_b)))>>,
     <<Csv(<<Header, <<U_b>> >>), Items(U_b, JStr(T_b))>>}

FirstClock == [day |-> 1, sec |-> 1]

\* What every specification starts from, the inputs aside.
Fresh ==
    /\ clock = FirstClock
    /\ run = "first"
    /\ base_url = <<>>
    /\ now_utc = [day |-> 0, sec |-> 0]
    /\ exit_code = -1
    /\ tree0 = tree
    /\ start = tree
    /\ copied = {}
    /\ prev = NoDocuments
    /\ scanned = <<>>

NoReaderCall ==
    /\ rlog = NoCsv
    /\ rlimit = 0
    /\ rresult = <<>>
    /\ rpc = "idle"

Init ==
    /\ argv \in ArgvPool
    /\ tree \in Trees(OutPool)
    /\ docs \in DocsDirs(DocsPool)
    /\ \E f \in FeedInputs : daily_csv = f[1] /\ enriched_json = f[2]
    /\ pc = "main"
    /\ Fresh
    /\ NoReaderCall

Spec == Init /\ [][Next]_vars

---------------------------------------------------------------------------
(* The feed over many logs and enrichment indexes, one tree *)

\* The most data rows a log of FeedSpec and ReaderSpec holds.
MaxRows == 3

\* The sequences over S of length at most n.
SeqUpTo(S, n) == UNION {[1..k -> S] : k \in 0..n}

\* The states enriched.json may be in.
EnrichedPool ==
    {NoJson, BadJson,
     Json(JList(<<JStr(T_b)>>)),
     Json(JObj("other" :> JNull)),
     Json(JObj("items" :> JList(<<JStr(T_b)>>))),
     Json(JObj("items" :> JNull)),
     Items(U_b, JObj("title" :> JStr(T_b))),
     Items(U_b, JObj("title" :> JStr(T_pad) @@ "summary" :> JStr(S_b)
                     @@ "description" :> JStr(D_b))),
     Items(U_b, JObj("title" :> JStr(T_blank) @@ "description" :> JStr(D_b))),
     Items(U_b, JObj("title" :> JNull @@ "summary" :> JStr(<<>>))),
     Items(U_b, JObj("title" :> JNum(0) @@ "summary" :> JList(<<>>))),
     Items(U_a, JEmpty),
     Items(U_b, JStr(T_b)),
     Items(U_b, JNull),
     Items(U_b, JList(<<>>)),
     Items(U_b, JObj("title" :> JNum(5))),
     Items(U_a, JObj("summary" :> JList(<<JStr(S_b)>>))),
     Items(U_a, JObj("description" :> JObj("text" :> JStr(D_b))))}

FeedInit ==
    /\ argv = <<"out", URL_ok>>
    /\ tree = Restrict(OutPool, {N_index})
    /\ docs = [exists |-> FALSE, files |-> <<>>]
    /\ daily_csv \in {NoCsv} \cup
          {Csv(<<Header>> \o [i \in DOMAIN r |-> <<r[i]>>]) : r \in SeqUpTo({U_a, U_b, U_c}, MaxRows)}
    /\ enriched_json \in EnrichedPool
    /\ pc = "main"
    /\ Fresh
    /\ NoReaderCall

FeedSpec == FeedInit /\ [][Next]_vars

---------------------------------------------------------------------------
(* _read_recent_urls called with a limit of the caller's choice *)

\* The largest limit ReaderSpec passes.
MaxLimit == 3

\* A data row: empty, or one whose first cell is a URL, a padded URL, or no URL.
RowPool == {<<>>, <<U_a>>, <<U_b, CELL_header>>, <<CELL_pad>>, <<CELL_ftp>>, <<T_blank>>}

ReaderInit ==
    /\ rlog \in {NoCsv, Csv(<<>>)} \cup {Csv(<<Header>> \o r) : r \in SeqUpTo(RowPool, MaxRows)}
    /\ rlimit \in 0..MaxLimit
    /\ rresult = <<>>
    /\ rpc = "call"
    /\ argv = <<>>
    /\ tree = <<>>
    /\ docs = [exists |-> FALSE, files |-> <<>>]
    /\ daily_csv = NoCsv
    /\ enriched_json = NoJson
    /\ pc = "idle"
    /\ Fresh

ReadRecentUrls ==
    /\ rpc = "call"
    /\ rresult' = read_recent_urls(rlog, rlimit)
    /\ rpc' = "returned"
    /\ UNCHANGED <<argv, tree, docs, daily_csv, enriched_json, clock, pc, run, base_url,
                   now_utc, exit_code, tree0, start, copied, prev, scanned, rlog, rlimit>>

ReaderNext == ReadRecentUrls

ReaderSpec == ReaderInit /\ [][ReaderNext]_vars

---------------------------------------------------------------------------
(* What the claims speak of *)

\* The <loc> of every <url> of the sitemap in the tree, in document order.
SitemapLocs == [i \in DOMAIN tree[N_sitemap].data.url |-> tree[N_sitemap].data.url[i].loc]

\* This invocation has written the sitemap.
SitemapWritten == pc \in {"ensure_netlify_overrides", "done"}

\* This invocation has written the feed.
FeedWritten == pc \in {"ensure_sitemap", "ensure_netlify_overrides", "done"}

\* The lines of a text file: its pieces, the empty one after the last newline aside.
LinesOf(name) ==
    LET ps == tree[name].data.pieces
    IN  IF ps[Len(ps)] = <<>> THEN SubSeq(ps, 1, Len(ps) - 1) ELSE ps

\* How many times a line occurs.
Occurrences(lines, l) == Cardinality({i \in DOMAIN lines : lines[i] = l})

\* The line "/<name> /<name> 200".
RuleLine(name) == <<"/">> \o name \o <<" ", "/">> \o name \o <<" ", "2", "0", "0">>

\* The arguments main rejects.
BadArguments ==
    \/ Len(argv) < 2
    \/ argv[1] # "out"
    \/ LET u == rstrip_chars(strip(argv[2]), {"/"})
       IN  Len(u) < 4 \/ SubSeq(u, 1, 4) # <<"h", "t", "t", "p">>

\* A name ends in .html, as written.
HtmlName(n) == Len(n) >= 5 /\ SubSeq(n, Len(n) - 4, Len(n)) = <<".", "h", "t", "m", "l">>

\* A name of 32 hex digits and .txt, in either case.
KeyName(n) ==
    /\ Len(n) = 36
    /\ \A i \in 1..32 : n[i] \in Range(Digits) \cup {"a","b","c","d","e","f","A","B","C","D","E","F"}
    /\ n[33] = "." /\ n[34] \in {"t", "T"} /\ n[35] \in {"x", "X"} /\ n[36] \in {"t", "T"}

\* A name that starts with google and ends with .html, in either case.
VerificationName(n) ==
    /\ Len(n) >= 11
    /\ lower(SubSeq(n, 1, 6)) = <<"g","o","o","g","l","e">>
    /\ lower(SubSeq(n, Len(n) - 4, Len(n))) = <<".","h","t","m","l">>

\* (C1) The sitemap _ensure_sitemap writes has exactly one entry for each of:
\* base_url/ when the root index.html exists, base_url/rel for every *.html
\* entry under the root other than the root index.html, base_url/name for every
\* allow-listed top-level name that exists; no URL twice; in ascending order.
C1_SitemapEntries ==
    SitemapWritten =>
        LET locs == SitemapLocs
            want == (IF N_index \in DOMAIN scanned THEN {base_url \o <<"/">>} ELSE {})
                    \cup {base_url \o <<"/">> \o rel :
                            rel \in {p \in DOMAIN scanned : HtmlName(p) /\ p # N_index}}
                    \cup {base_url \o <<"/">> \o n :
                            n \in {N_all, N_about, N_rss, N_sitemap, N_robots, N_backlink}
                                  \cap DOMAIN scanned}
        IN  /\ Range(locs) = want
            /\ \A i, j \in DOMAIN locs : i < j => locs[i] # locs[j] /\ str_lt(locs[i], locs[j])

\* A sitemap of a tree where all.html is found twice, with the root page, a
\* nested index.html and a directory named *.html.
C1_Witness ==
    /\ SitemapWritten
    /\ {N_index, N_all, P_daily, F_googleDir, F_google1} \subseteq DOMAIN scanned
    /\ Len(SitemapLocs) >= 7

\* The documents with their timestamp fields (lastmod, lastBuildDate, pubDate) left out.
SansTimestamps(d) ==
    [robots  |-> d.robots,
     sitemap |-> [i \in DOMAIN d.sitemap.url |-> d.sitemap.url[i].loc],
     rss     |-> [title |-> d.rss.title, link |-> d.rss.link, description |-> d.rss.description,
                  item |-> [i \in DOMAIN d.rss.item |->
                              [title |-> d.rss.item[i].title, link |-> d.rss.item[i].link,
                               guid |-> d.rss.item[i].guid,
                               description |-> d.rss.item[i].description]]]]

\* (C2) Running the pipeline twice in a row, from any output tree, leaves after the
\* second run a sitemap, feed and robots document equal to the first run's,
\* timestamp fields aside.
C2_SecondRunSameDocuments ==
    (run = "second" /\ pc = "done") =>
        SansTimestamps(documents(tree)) = SansTimestamps(prev)

\* (C7) With fewer than two arguments, a missing output directory or a base URL
\* that does not start with http once normalised, main ends in the error state
\* and has written nothing: no token copied, no document created or modified.
C7_UsageErrorWritesNothing ==
    BadArguments =>
        /\ pc \in {"main", "usage_error"}
        /\ pc = "usage_error" => exit_code # 0 /\ tree = tree0 /\ copied = {}

\* Each of the three ways to fail, after main has run.
C7_Witness ==
    /\ pc = "usage_error"
    /\ exit_code = 1
    /\ argv \in {<<"out">>, <<"gone", URL_ok>>, <<"out", URL_bad>>}
    /\ tree0 # <<>>

\* The names the claims range over: every name of the pools, of the fixed
\* lists, and of the files the script writes.
Names ==
    DOMAIN OutPool \cup DOMAIN DocsPool
    \cup {N_robots, N_sitemap, N_rss, N_backlink, N_index, N_all, N_about, N_redirects, N_headers}

WellKnown == {N_robots, N_sitemap, N_rss, N_backlink, N_index, N_all, N_about}

\* A regular file at the top of the tree.
TopLevelFile(n) == n \in DOMAIN tree /\ tree[n].kind = "file" /\ \A i \in DOMAIN n : n[i] # "/"

\* (C8) _copy_root_tokens never overwrites: every entry of the output root keeps
\* its content; what it copies is a docs file named google*.html or like a key
\* file, to a name the output root did not hold; a second run copies nothing.
C8_CopierNeverOverwrites ==
    pc = "ensure_robots" =>
        /\ \A n \in DOMAIN start : n \in DOMAIN tree /\ tree[n] = start[n]
        /\ \A n \in DOMAIN tree \ DOMAIN start :
              /\ docs.exists /\ n \in DOMAIN docs.files
              /\ tree[n] = [kind |-> "file", data |-> docs.files[n]]
              /\ KeyName(n) \/ (HtmlName(n) /\ Len(n) >= 11 /\ SubSeq(n, 1, 6) = <<"g","o","o","g","l","e">>)
        /\ run = "second" => tree = start

\* The copier has copied the key file, and left alone a verification file that
\* docs holds too, with other content.
C8_Witness ==
    /\ pc = "ensure_robots"
    /\ F_key \in copied
    /\ F_google1 \in DOMAIN start /\ F_google1 \in DOMAIN docs.files
    /\ docs.files[F_google1] # start[F_google1].data
    /\ F_readme \in DOMAIN docs.files

\* The same after the second run's copy.
C8_WitnessSecond ==
    /\ pc = "ensure_robots" /\ run = "second"
    /\ F_key \in DOMAIN tree /\ F_key \notin DOMAIN tree0

\* (C4) After _ensure_netlify_overrides, the rewrite rules hold the line
\* "/<name> /<name> 200" for a well-known name iff it exists in the output tree,
\* and for a top-level file named like a key file or a verification file; each
\* exactly once; and for no other top-level file.
C4_RuleIffPresent ==
    pc = "done" =>
        LET lines == LinesOf(N_redirects)
        IN  \A n \in Names :
              /\ n \in WellKnown =>
                    Occurrences(lines, RuleLine(n)) = (IF n \in DOMAIN tree THEN 1 ELSE 0)
              /\ (n \notin WellKnown /\ TopLevelFile(n) /\ (KeyName(n) \/ VerificationName(n))) =>
                    Occurrences(lines, RuleLine(n)) = 1
              /\ (n \notin WellKnown /\ ~(TopLevelFile(n) /\ (KeyName(n) \/ VerificationName(n)))) =>
                    Occurrences(lines, RuleLine(n)) = 0

\* Rules for a key file, for verification files of both cases, none for notakey.txt.
C4_Witness ==
    /\ pc = "done"
    /\ {F_key, F_google1, F_googleUp, F_notakey, F_googleDir, N_index} \subseteq DOMAIN tree
    /\ N_all \notin DOMAIN tree
    /\ Occurrences(LinesOf(N_redirects), RuleLine(F_key)) = 1
    /\ Occurrences(LinesOf(N_redirects), RuleLine(F_notakey)) = 0

\* The place of a line in the order of the rules: the index of its name in the
\* fixed list, then the daily rule, then the token rules.
MustList == <<N_robots, N_sitemap, N_rss, N_backlink, N_index, N_all, N_about>>

DailyLine == <<"/","d","/","*"," ","/","d","/",":","s","p","l","a","t"," ","2","0","0">>

IsMustLine(l) == \E k \in DOMAIN MustList : l = RuleLine(MustList[k])

MustIndex(l) == CHOOSE k \in DOMAIN MustList : l = RuleLine(MustList[k])

IsTokenLine(l) == \E n \in Names : TopLevelFile(n) /\ (KeyName(n) \/ VerificationName(n)) /\ l = RuleLine(n)

TokenOf(l) == CHOOSE n \in Names : l = RuleLine(n)

\* (C9) The rewrite rules come as: the rules of the must-exist files that are
\* present, in the order of the fixed list; then the one rule of the daily
\* directory, iff an entry named d exists; then the rules of the verification and
\* key files, by ascending file name.
C9_RuleOrder ==
    pc = "done" =>
        LET lines == LinesOf(N_redirects)
        IN  /\ \A i \in DOMAIN lines :
                  IsMustLine(lines[i]) \/ lines[i] = DailyLine \/ IsTokenLine(lines[i])
            /\ Occurrences(lines, DailyLine) = (IF N_d \in DOMAIN tree THEN 1 ELSE 0)
            /\ \A i, j \in DOMAIN lines : i < j =>
                  /\ IsMustLine(lines[j]) =>
                        IsMustLine(lines[i]) /\ MustIndex(lines[i]) < MustIndex(lines[j])
                  /\ lines[j] = DailyLine => IsMustLine(lines[i])
                  /\ IsTokenLine(lines[i]) =>
                        IsTokenLine(lines[j]) /\ str_lt(TokenOf(lines[i]), TokenOf(lines[j]))

\* All three groups, with token names whose order by code point is not the
\* order ignoring case.
C9_Witness ==
    /\ pc = "done"
    /\ {N_index, N_all, N_d, F_key, F_google1, F_googleUp} \subseteq DOMAIN tree
    /\ Len(LinesOf(N_redirects)) = 9

\* (C10) A successful run ends with the sitemap listing base_url/robots.txt and
\* base_url/rss.xml, listing base_url/sitemap.xml iff sitemap.xml existed before
\* the run, and with rewrite rules for robots.txt, sitemap.xml, rss.xml and for
\* every token copied in this run.
C10_LaterStepsSeeEarlierWrites ==
    pc = "done" =>
        LET locs  == Range(SitemapLocs)
            lines == Range(LinesOf(N_redirects))
        IN  /\ base_url \o <<"/">> \o N_robots \in locs
            /\ base_url \o <<"/">> \o N_rss \in locs
            /\ (base_url \o <<"/">> \o N_sitemap \in locs) <=> (N_sitemap \in DOMAIN start)
            /\ {RuleLine(N_robots), RuleLine(N_sitemap), RuleLine(N_rss)} \subseteq lines
            /\ \A n \in copied : RuleLine(n) \in lines

\* A first run on a tree without the three documents, which copied two tokens.
C10_Witness ==
    /\ pc = "done" /\ run = "first"
    /\ DOMAIN start \cap {N_robots, N_rss, N_sitemap} = {}
    /\ copied = {F_key, F_google1}

\* A second run, which finds the sitemap the first one wrote.
C10_WitnessSecond ==
    /\ pc = "done" /\ run = "second"
    /\ N_sitemap \notin DOMAIN tree0
    /\ base_url \o <<"/">> \o N_sitemap \in Range(SitemapLocs)

\* The <item>s of the feed in the tree, in document order.
FeedItems == tree[N_rss].data.item

\* The record the enrichment index holds for a URL, when the index is an object
\* whose items is a mapping that holds one.
HasRecord(u) ==
    /\ enriched_json.state = "json"
    /\ enriched_json.val.t = "obj"
    /\ "items" \in DOMAIN enriched_json.val.v
    /\ enriched_json.val.v["items"].t = "obj"
    /\ u \in DOMAIN enriched_json.val.v["items"].v

Record(u) == enriched_json.val.v["items"].v[u]

\* The trimmed text of a field of the URL's record; <<>> when the record is no
\* object, or the field is absent or no string.
FieldText(u, field) ==
    IF /\ HasRecord(u)
       /\ Record(u).t = "obj"
       /\ field \in DOMAIN Record(u).v
       /\ Record(u).v[field].t = "str"
    THEN strip(Record(u).v[field].v)
    ELSE <<>>

\* (C5) The feed has one item per URL the reader returns, in reverse log order:
\* the i-th item's link and guid are the (n+1-i)-th URL; its title is the
\* record's title, trimmed, when that is not blank, else the URL.
C5_FeedReverseOrder ==
    FeedWritten =>
        LET urls  == read_recent_urls(daily_csv, DEFAULT_LIMIT)
            n     == Len(urls)
            items == FeedItems
        IN  /\ Len(items) = n
            /\ \A i \in 1..n :
                  /\ items[i].link = urls[n + 1 - i]
                  /\ items[i].guid = urls[n + 1 - i]
                  /\ items[i].title = (IF FieldText(items[i].link, "title") # <<>>
                                       THEN FieldText(items[i].link, "title")
                                       ELSE items[i].link)

\* The log [a, b, c] with a title for b only: the items are c, b, a, titled c,
\* "B title", a.
C5_Witness ==
    /\ FeedWritten
    /\ daily_csv = Csv(<<Header, <<U_a>>, <<U_b>>, <<U_c>> >>)
    /\ [i \in DOMAIN FeedItems |-> FeedItems[i].link] = <<U_c, U_b, U_a>>
    /\ [i \in DOMAIN FeedItems |-> FeedItems[i].title] = <<U_c, T_b, U_a>>

\* A URL logged twice makes two items.
C5_WitnessTwice ==
    /\ FeedWritten
    /\ [i \in DOMAIN FeedItems |-> FeedItems[i].link] = <<U_b, U_a, U_b>>

\* (C6) Whatever the state of the enrichment index, _ensure_rss does not fail the
\* run, and an item without usable metadata has its URL as title and description.
C6_EnrichmentNeverFailsRun ==
    /\ pc # "crashed"
    /\ FeedWritten =>
          \A i \in DOMAIN FeedItems :
              LET u == FeedItems[i].link
              IN  /\ FieldText(u, "title") = <<>> => FeedItems[i].title = u
                  /\ (FieldText(u, "summary") = <<>> /\ FieldText(u, "description") = <<>>)
                        => FeedItems[i].description = u

\* The rows of the log that count: header aside, the trimmed first cell of
\* every row that has one, when it starts with http:// or https://.
ValidRows(csv) ==
    IF ~csv.exists \/ csv.rows = <<>> THEN <<>>
    ELSE LET data == Tail(csv.rows)
             F[k \in 0..Len(data)] ==
                 IF k = 0 THEN <<>>
                 ELSE LET u == IF data[k] = <<>> THEN <<>> ELSE strip(data[k][1])
                      IN  IF \/ (Len(u) >= 7 /\ SubSeq(u, 1, 7) = <<"h","t","t","p",":","/","/">>)
                             \/ (Len(u) >= 8 /\ SubSeq(u, 1, 8) = <<"h","t","t","p","s",":","/","/">>)
                          THEN Append(F[k - 1], u) ELSE F[k - 1]
         IN  F[Len(data)]

\* (C3) For every log and every limit >= 0, _read_recent_urls returns at most
\* limit entries, and the last limit valid rows, in log order, when there are more.
C3_AtMostLimit ==
    rpc = "returned" =>
        LET valid == ValidRows(rlog)
        IN  /\ Len(rresult) <= rlimit
            /\ Len(valid) > rlimit =>
                  rresult = SubSeq(valid, Len(valid) - rlimit + 1, Len(valid))

====
